---- MODULE Spec2Model ----
(***************************************************************************)
(* Model of scripts/btis.py, the BTIS updater: the Wilder RSI, the         *)
(* normalizer, the missing-data tolerant weighted mean, and the runs of    *)
(* main() (fetch the feeds, compute the components and the index, write    *)
(* the output file).                                                       *)
(*                                                                         *)
(* Numbers.  Python floats are modelled as exact rationals <<n, d>> in     *)
(* lowest terms with d > 0.  None is the empty tuple <<>>.  float('inf')   *)
(* is the pair <<1, 0>>.  Prices are integers.                             *)
(***************************************************************************)
EXTENDS Integers, Sequences, FiniteSets, TLC

VARIABLES
    \* ---- a call of one pure function (rsi, normalize, weighted_mean,
    \*      compute_btis): its arguments, its return value, and whether it
    \*      has returned
    input, output, phase,
    \* ---- one run of main(): the locals of compute_components and main
    pc, prices, rsi_val, pct, feargreed, funding_pct_per_8h, mvrv_z, comps, btis,
    \* ---- the world around a run: the output file, the number of the run,
    \*      the exception that ended it ("" if none)
    artifact, runNo, fault,
    \* ---- specification history: the output file as the run found it
    artifactAtStart

vars == <<input, output, phase, pc, prices, rsi_val, pct, feargreed,
          funding_pct_per_8h, mvrv_z, comps, btis, artifact, runNo, fault,
          artifactAtStart>>

callVars == <<input, output, phase>>
runVars == <<pc, prices, rsi_val, pct, feargreed, funding_pct_per_8h, mvrv_z,
             comps, btis, artifact, runNo, fault, artifactAtStart>>

----------------------------------------------------------------------------
(* Exact arithmetic standing for Python's float arithmetic.                *)

None == <<>>

Inf == <<1, 0>>

Abs(x) == IF x < 0 THEN -x ELSE x

RECURSIVE GCD(_, _)
GCD(a, b) == IF b = 0 THEN a ELSE GCD(b, a % b)

\* n/d in lowest terms, d > 0 (d # 0 is the caller's obligation).
Rat(n, d) ==
    LET g == GCD(Abs(n), Abs(d))
        s == IF d < 0 THEN -1 ELSE 1
    IN  <<(s * n) \div g, (s * d) \div g>>

FromInt(n) == <<n, 1>>

RAdd(a, b) == Rat(a[1] * b[2] + b[1] * a[2], a[2] * b[2])

RSub(a, b) == Rat(a[1] * b[2] - b[1] * a[2], a[2] * b[2])

RMul(a, b) == Rat(a[1] * b[1], a[2] * b[2])

\* a / b for b # 0.
RDiv(a, b) == Rat(a[1] * b[2], a[2] * b[1])

RLt(a, b) == a[1] * b[2] < b[1] * a[2]

RLe(a, b) == a[1] * b[2] <= b[1] * a[2]

\* Python's max(a, b) and min(a, b): the first argument unless the second
\* is strictly greater (smaller).
RMax(a, b) == IF RLt(a, b) THEN b ELSE a

RMin(a, b) == IF RLt(b, a) THEN b ELSE a

Max(a, b) == IF b > a THEN b ELSE a

Min(a, b) == IF b < a THEN b ELSE a

RECURSIVE SumInts(_)
SumInts(s) == IF s = <<>> THEN 0 ELSE Head(s) + SumInts(Tail(s))

RECURSIVE SumRats(_)
SumRats(s) == IF s = <<>> THEN FromInt(0) ELSE RAdd(Head(s), SumRats(Tail(s)))

InRange0to100(x) == RLe(FromInt(0), x) /\ RLe(x, FromInt(100))

----------------------------------------------------------------------------
(* rsi(values, period)                                                     *)

\* gains[i] = max(change, 0), losses[i] = abs(min(change, 0)) for the
\* change from values[i] to values[i+1].
Gains(values) ==
    [i \in 1..(IF Len(values) = 0 THEN 0 ELSE Len(values) - 1) |->
        Max(values[i + 1] - values[i], 0)]

\* Mutant of Losses: the sign of a fall is kept (min(change, 0) without abs).
LossesSigned(values) ==
    [i \in 1..(IF Len(values) = 0 THEN 0 ELSE Len(values) - 1) |->
        Min(values[i + 1] - values[i], 0)]

Losses(values) ==
    [i \in 1..(IF Len(values) = 0 THEN 0 ELSE Len(values) - 1) |->
        Abs(Min(values[i + 1] - values[i], 0))]

\* The seed: the simple mean of the first `period` gains and losses.
SeedAvg(gains, losses, period) ==
    [gain |-> Rat(SumInts(SubSeq(gains, 1, period)), period),
     loss |-> Rat(SumInts(SubSeq(losses, 1, period)), period)]

\* One step of Wilder smoothing: avg = (avg*(period-1) + current) / period.
Smooth(avg, current, period) ==
    RDiv(RAdd(RMul(avg, FromInt(period - 1)), FromInt(current)), FromInt(period))

\* The averages after the seed and after every step of the loop, in order:
\* element 1 is the seed, element k+1 the averages after the k-th iteration.
RECURSIVE AvgTrace(_, _, _, _)
AvgTrace(gains, losses, period, n) ==
    IF n = 0 THEN <<SeedAvg(gains, losses, period)>>
    ELSE LET prev == AvgTrace(gains, losses, period, n - 1)
             last == prev[Len(prev)]
         IN  Append(prev,
                    [gain |-> Smooth(last.gain, gains[period + n], period),
                     loss |-> Smooth(last.loss, losses[period + n], period)])

\* Mutant of RelStrength: no loss gives rs = 0 instead of infinity.
RelStrengthZeroOnNoLoss(avg) ==
    IF avg.loss # FromInt(0) THEN RDiv(avg.gain, avg.loss) ELSE FromInt(0)

\* rs = avg_gain / avg_loss if avg_loss != 0 else float('inf')
RelStrength(avg) ==
    IF avg.loss # FromInt(0) THEN RDiv(avg.gain, avg.loss) ELSE Inf

\* 100 - (100 / (1 + rs)); 1 + inf = inf and 100 / inf = 0.
RsiOfRs(rs) ==
    IF rs = Inf THEN RSub(FromInt(100), FromInt(0))
    ELSE RSub(FromInt(100), RDiv(FromInt(100), RAdd(FromInt(1), rs)))

\* The list rsis: one value per iteration of the loop, none for the seed.
RsiList(values, period) ==
    LET gains == Gains(values)
        losses == Losses(values)
        trace == AvgTrace(gains, losses, period, Len(gains) - period)
    IN  [k \in 1..(Len(trace) - 1) |-> RsiOfRs(RelStrength(trace[k + 1]))]

Rsi(values, period) ==
    IF Len(Gains(values)) < period THEN None
    ELSE LET rsis == RsiList(values, period)
         IN  IF rsis # <<>> THEN rsis[Len(rsis)] ELSE None

----------------------------------------------------------------------------
(* normalize(value, lo, hi, clip)                                          *)

\* Mutant of Normalize: the result is never clipped.
NormalizeNoClip(value, lo, hi, clip) ==
    IF value = None THEN None
    ELSE IF hi = lo THEN FromInt(0)
    ELSE RDiv(RMul(FromInt(100), RSub(value, lo)), RSub(hi, lo))

Normalize(value, lo, hi, clip) ==
    IF value = None THEN None
    ELSE IF hi = lo THEN FromInt(0)
    ELSE LET x == RDiv(RMul(FromInt(100), RSub(value, lo)), RSub(hi, lo))
         IN  IF clip THEN RMax(FromInt(0), RMin(FromInt(100), x)) ELSE x

----------------------------------------------------------------------------
(* weighted_mean(pairs): pairs is a sequence of <<value, weight>>.         *)

\* vals = [(v,w) for v,w in pairs if v is not None and w > 0]
Surviving(pairs) ==
    SelectSeq(pairs, LAMBDA p : p[1] # None /\ RLt(FromInt(0), p[2]))

\* Mutant of WeightedMean: an absent value counts as 0 with its weight kept.
WeightedMeanNoneAsZero(pairs) ==
    LET vals == SelectSeq(pairs, LAMBDA p : RLt(FromInt(0), p[2]))
        val(p) == IF p[1] = None THEN FromInt(0) ELSE p[1]
    IN  IF vals = <<>> THEN None
        ELSE RDiv(SumRats([i \in 1..Len(vals) |-> RMul(val(vals[i]), vals[i][2])]),
                  SumRats([i \in 1..Len(vals) |-> vals[i][2]]))

WeightedMean(pairs) ==
    LET vals == Surviving(pairs)
    IN  IF vals = <<>> THEN None
        ELSE LET total_w == SumRats([i \in 1..Len(vals) |-> vals[i][2]])
             IN  RDiv(SumRats([i \in 1..Len(vals) |-> RMul(vals[i][1], vals[i][2])]),
                      total_w)

----------------------------------------------------------------------------
(* compute_btis(components)                                                *)

ComponentNames ==
    <<"RSI(14)", "MVRV Z-Score", "Fear & Greed", "Price vs Log Range",
      "Funding Rate (8h %)">>

Weights ==
    [n \in {ComponentNames[i] : i \in 1..Len(ComponentNames)} |->
        CASE n = "RSI(14)" -> Rat(20, 100)
          [] n = "MVRV Z-Score" -> Rat(25, 100)
          [] n = "Fear & Greed" -> Rat(20, 100)
          [] n = "Price vs Log Range" -> Rat(20, 100)
          [] n = "Funding Rate (8h %)" -> Rat(15, 100)]

\* Mutant of ComputeBtis: no present component gives 0 instead of null.
ComputeBtisZeroWhenEmpty(components) ==
    LET score == WeightedMean([i \in 1..Len(components) |->
                    <<components[i].normalized, Weights[components[i].name]>>])
    IN  IF score = None THEN FromInt(0) ELSE score

ComputeBtis(components) ==
    WeightedMean([i \in 1..Len(components) |->
                    <<components[i].normalized, Weights[components[i].name]>>])

----------------------------------------------------------------------------
(* compute_components(): the pure part.                                    *)

Period == 14

RsiWindow == 250

RsiLo == FromInt(30)

RsiHi == FromInt(80)

FundingLo == FromInt(0)

FundingHi == Rat(10, 100)

MvrvLo == FromInt(0)

MvrvHi == FromInt(9)

\* prices[-n:]
LastN(s, n) == IF Len(s) <= n THEN s ELSE SubSeq(s, Len(s) - n + 1, Len(s))

\* math.log(p) in units of ln 2, for p a power of two (the prices the feed
\* of this model returns); the unit cancels in normalize.  math.log raises
\* for p <= 0: Engine raises before it asks for the log of such a price.
RECURSIVE Log(_)
Log(p) == IF p <= 1 THEN 0 ELSE 1 + Log(p \div 2)

\* logs = [math.log(p) for p in prices if p > 0]
Logs(ps) ==
    LET pos == SelectSeq(ps, LAMBDA p : p > 0)
    IN  [i \in 1..Len(pos) |-> Log(pos[i])]

RECURSIVE MinOf(_)
MinOf(s) == IF Len(s) = 1 THEN s[1] ELSE Min(s[1], MinOf(Tail(s)))

RECURSIVE MaxOf(_)
MaxOf(s) == IF Len(s) = 1 THEN s[1] ELSE Max(s[1], MaxOf(Tail(s)))

\* pct = normalize(math.log(last_price), min(logs), max(logs))
LogPercentile(ps) ==
    Normalize(FromInt(Log(ps[Len(ps)])), FromInt(MinOf(Logs(ps))),
              FromInt(MaxOf(Logs(ps))), TRUE)

\* Mutant of FundingNorm: normalize is called with clip=False.
FundingNormUnclipped(funding) ==
    IF funding # None THEN Normalize(funding, FundingLo, FundingHi, FALSE) ELSE None

\* funding_norm
FundingNorm(funding) ==
    IF funding # None THEN Normalize(funding, FundingLo, FundingHi, TRUE) ELSE None

\* mvrv_norm
MvrvNorm(z) == IF z # None THEN Normalize(z, MvrvLo, MvrvHi, TRUE) ELSE None

\* The list compute_components returns (the display string "detail" of a
\* record is not modelled).
Components(rsi, z, fg, p, funding) ==
    <<[name |-> "RSI(14)", normalized |-> Normalize(rsi, RsiLo, RsiHi, TRUE)],
      [name |-> "MVRV Z-Score", normalized |-> MvrvNorm(z)],
      [name |-> "Fear & Greed", normalized |-> fg],
      [name |-> "Price vs Log Range", normalized |-> p],
      [name |-> "Funding Rate (8h %)", normalized |-> FundingNorm(funding)]>>

----------------------------------------------------------------------------
(* Bounds of the input sets.                                               *)

MaxLen == 5

MaxPrice == 4

MaxPeriod == 3

MaxPairs == 4

NormSteps == 2

MaxExp == 1

MaxRuns == 2

\* All sequences over S of length at most n.
SeqsUpTo(S, n) == UNION {[1..k -> S] : k \in 0..n}

\* The output file: absent, empty (opened for writing and truncated, and
\* left so when a write fails with nothing written), partial (a write
\* failed part way) or complete; a complete file holds the
\* record of one run, named by its generated_at (0: a run before these).
NoFile == [state |-> "absent", generated_at |-> 0]

NoFault == [kind |-> "none", at |-> "none"]

\* While a pure function is being checked no run of main() is under way.
RunIdle ==
    /\ pc = "idle"
    /\ prices = <<>>
    /\ rsi_val = None
    /\ pct = None
    /\ feargreed = None
    /\ funding_pct_per_8h = None
    /\ mvrv_z = None
    /\ comps = <<>>
    /\ btis = None
    /\ artifact = NoFile
    /\ runNo = 0
    /\ fault = NoFault
    /\ artifactAtStart = NoFile

----------------------------------------------------------------------------
(* SpecRsi: rsi on every price series of length <= MaxLen over             *)
(* 1..MaxPrice, for every period in 1..MaxPeriod.                          *)

InitRsi ==
    /\ input \in [values : SeqsUpTo(1..MaxPrice, MaxLen), period : 1..MaxPeriod]
    /\ output = None
    /\ phase = "call"
    /\ RunIdle

CallRsi ==
    /\ phase = "call"
    /\ output' = Rsi(input.values, input.period)
    /\ phase' = "returned"
    /\ UNCHANGED <<input, runVars>>

SpecRsi == InitRsi /\ [][CallRsi]_vars

----------------------------------------------------------------------------
(* SpecNormalize: normalize on a grid of values and domains.               *)

NormalizeGrid == {FromInt(n) : n \in {-10, 0, 5, 30, 80, 100, 150}}

InitNormalize ==
    /\ input \in [value : NormalizeGrid \cup {None}, lo : NormalizeGrid,
                  hi : NormalizeGrid, clip : BOOLEAN]
    /\ output = None
    /\ phase = "call"
    /\ RunIdle

CallNormalize ==
    /\ phase = "call"
    /\ output' = Normalize(input.value, input.lo, input.hi, input.clip)
    /\ phase' = "returned"
    /\ UNCHANGED <<input, runVars>>

SpecNormalize == InitNormalize /\ [][CallNormalize]_vars

----------------------------------------------------------------------------
(* SpecWeightedMean: weighted_mean on every list of at most MaxPairs       *)
(* pairs drawn from PairChoices.                                           *)

PairChoices ==
    {<<FromInt(80), Rat(20, 100)>>, <<FromInt(60), Rat(20, 100)>>,
     <<FromInt(40), Rat(15, 100)>>,
     <<None, Rat(25, 100)>>, <<None, Rat(20, 100)>>, <<None, FromInt(0)>>,
     <<FromInt(80), FromInt(0)>>, <<FromInt(60), Rat(-20, 100)>>}

InitWeightedMean ==
    /\ input \in SeqsUpTo(PairChoices, MaxPairs)
    /\ output = None
    /\ phase = "call"
    /\ RunIdle

CallWeightedMean ==
    /\ phase = "call"
    /\ output' = WeightedMean(input)
    /\ phase' = "returned"
    /\ UNCHANGED <<input, runVars>>

SpecWeightedMean == InitWeightedMean /\ [][CallWeightedMean]_vars

----------------------------------------------------------------------------
(* SpecComputeBtis: compute_btis on the five component records, each       *)
(* normalized value null or on a grid of NormSteps+1 points of [0,100].    *)

NormalizedGrid == {Rat(100 * k, NormSteps) : k \in 0..NormSteps} \cup {None}

ComponentLists ==
    {[i \in 1..Len(ComponentNames) |-> [name |-> ComponentNames[i], normalized |-> f[i]]] :
        f \in [1..Len(ComponentNames) -> NormalizedGrid]}

InitComputeBtis ==
    /\ input \in ComponentLists
    /\ output = None
    /\ phase = "call"
    /\ RunIdle

CallComputeBtis ==
    /\ phase = "call"
    /\ output' = ComputeBtis(input)
    /\ phase' = "returned"
    /\ UNCHANGED <<input, runVars>>

SpecComputeBtis == InitComputeBtis /\ [][CallComputeBtis]_vars

----------------------------------------------------------------------------
(* Spec: runs of main().  The feeds answer as the world decides: a payload,*)
(* a stall past the 30 s timeout of urlopen (which raises), or a transport *)
(* or parse error (which raises).  No exception is caught anywhere, so a   *)
(* raise ends the run.                                                     *)

\* Price levels: 0 (a non-positive price) and the powers of two up to
\* 2^MaxExp.
RECURSIVE Pow2(_)
Pow2(k) == IF k = 0 THEN 1 ELSE 2 * Pow2(k - 1)

PriceLevels == {0} \cup {Pow2(k) : k \in 0..MaxExp}

\* A history of n prices repeating a pattern of one or two levels.
Cycle(pat, n) == [i \in 1..n |-> pat[((i - 1) % Len(pat)) + 1]]

HistoryLengths == {0, 1, 2, Period, Period + 1, Period + 2, Period + 3}

PriceFeeds ==
    {Cycle(pat, n) : pat \in [1..1 -> PriceLevels] \cup [1..2 -> PriceLevels],
                     n \in HistoryLengths}

\* float(j["data"][0]["value"])
SentimentReadings == {FromInt(75), FromInt(150)}

\* j[0]["fundingRate"], a fraction per 8h: 0.0005, 0.002, -0.0001
FundingReadings == {Rat(5, 10000), Rat(20, 10000), Rat(-1, 10000)}

\* item["v"] of the last item with a value
MvrvReadings == {FromInt(3), FromInt(12)}

\* An uncaught exception: the run ends here.
Raise(kind, at) ==
    /\ pc' = "failed"
    /\ fault' = [kind |-> kind, at |-> at]

Init ==
    /\ input = None
    /\ output = None
    /\ phase = "idle"
    /\ pc = "fetch_prices"
    /\ prices = <<>>
    /\ rsi_val = None
    /\ pct = None
    /\ feargreed = None
    /\ funding_pct_per_8h = None
    /\ mvrv_z = None
    /\ comps = <<>>
    /\ btis = None
    /\ artifact \in {NoFile, [state |-> "complete", generated_at |-> 0]}
    /\ runNo = 1
    /\ fault = NoFault
    /\ artifactAtStart = artifact

\* prices = fetch_prices_days(4000)
FetchPrices ==
    /\ pc = "fetch_prices"
    /\ \/ \E p \in PriceFeeds : prices' = p /\ pc' = "engine" /\ UNCHANGED fault
       \/ Raise("timeout", "prices") /\ UNCHANGED prices
       \/ Raise("error", "prices") /\ UNCHANGED prices
    /\ UNCHANGED <<callVars, rsi_val, pct, feargreed, funding_pct_per_8h, mvrv_z,
                   comps, btis, artifact, runNo, artifactAtStart>>

\* last_price = prices[-1]; rsi_val = rsi(prices[-250:], period=14);
\* logs = ...; pct = normalize(math.log(last_price), min(logs), max(logs))
Engine ==
    /\ pc = "engine"
    /\ \/ /\ prices = <<>>                      \* prices[-1]: IndexError
          /\ Raise("empty", "prices")
          /\ UNCHANGED <<rsi_val, pct>>
       \/ /\ prices # <<>>
          /\ prices[Len(prices)] <= 0           \* math.log: ValueError
          /\ rsi_val' = Rsi(LastN(prices, RsiWindow), Period)
          /\ Raise("math", "prices")
          /\ UNCHANGED pct
       \/ /\ prices # <<>>
          /\ prices[Len(prices)] > 0
          /\ rsi_val' = Rsi(LastN(prices, RsiWindow), Period)
          /\ pct' = LogPercentile(prices)
          /\ pc' = "fetch_feargreed"
          /\ UNCHANGED fault
    /\ UNCHANGED <<callVars, prices, feargreed, funding_pct_per_8h, mvrv_z, comps,
                   btis, artifact, runNo, artifactAtStart>>

\* feargreed = fetch_feargreed()
FetchFearGreed ==
    /\ pc = "fetch_feargreed"
    /\ \/ \E v \in SentimentReadings :
             feargreed' = v /\ pc' = "fetch_funding" /\ UNCHANGED fault
       \/ Raise("empty", "feargreed") /\ UNCHANGED feargreed  \* j["data"][0]
       \/ Raise("timeout", "feargreed") /\ UNCHANGED feargreed
       \/ Raise("error", "feargreed") /\ UNCHANGED feargreed
    /\ UNCHANGED <<callVars, prices, rsi_val, pct, funding_pct_per_8h, mvrv_z,
                   comps, btis, artifact, runNo, artifactAtStart>>

\* funding_pct_per_8h = fetch_funding_last()
FetchFunding ==
    /\ pc = "fetch_funding"
    /\ \/ \E r \in FundingReadings :
             /\ funding_pct_per_8h' = RMul(r, FromInt(100))
             /\ pc' = "fetch_mvrv"
             /\ UNCHANGED fault
       \/ funding_pct_per_8h' = None /\ pc' = "fetch_mvrv" /\ UNCHANGED fault  \* not j
       \/ Raise("timeout", "funding") /\ UNCHANGED funding_pct_per_8h
       \/ Raise("error", "funding") /\ UNCHANGED funding_pct_per_8h
    /\ UNCHANGED <<callVars, prices, rsi_val, pct, feargreed, mvrv_z, comps, btis,
                   artifact, runNo, artifactAtStart>>

\* mvrv_z = fetch_mvrv_z()
FetchMvrv ==
    /\ pc = "fetch_mvrv"
    /\ \/ mvrv_z' = None /\ pc' = "components" /\ UNCHANGED fault   \* no key set
       \/ mvrv_z' = None /\ pc' = "components" /\ UNCHANGED fault   \* not j
       \/ mvrv_z' = None /\ pc' = "components" /\ UNCHANGED fault   \* every v null
       \/ \E z \in MvrvReadings :
             mvrv_z' = z /\ pc' = "components" /\ UNCHANGED fault
       \/ Raise("timeout", "mvrv") /\ UNCHANGED mvrv_z
       \/ Raise("error", "mvrv") /\ UNCHANGED mvrv_z
    /\ UNCHANGED <<callVars, prices, rsi_val, pct, feargreed, funding_pct_per_8h,
                   comps, btis, artifact, runNo, artifactAtStart>>

\* funding_norm, mvrv_norm, components = [...]; return components
BuildComponents ==
    /\ pc = "components"
    /\ comps' = Components(rsi_val, mvrv_z, feargreed, pct, funding_pct_per_8h)
    /\ pc' = "compute_btis"
    /\ UNCHANGED <<callVars, prices, rsi_val, pct, feargreed, funding_pct_per_8h,
                   mvrv_z, btis, artifact, runNo, fault, artifactAtStart>>

\* btis = compute_btis(comps); out = {...}
ComputeIndex ==
    /\ pc = "compute_btis"
    /\ btis' = ComputeBtis(comps)
    /\ pc' = "open"
    /\ UNCHANGED <<callVars, prices, rsi_val, pct, feargreed, funding_pct_per_8h,
                   mvrv_z, comps, artifact, runNo, fault, artifactAtStart>>

\* open(OUTFILE, "w"): creates or truncates the file, or raises OSError
\* (no data directory, no permission) and leaves it alone.
OpenOutfile ==
    /\ pc = "open"
    /\ \/ /\ artifact' = [state |-> "empty", generated_at |-> 0]
          /\ pc' = "dump"
          /\ UNCHANGED fault
       \/ Raise("oserror", "open") /\ UNCHANGED artifact
    /\ UNCHANGED <<callVars, prices, rsi_val, pct, feargreed, funding_pct_per_8h,
                   mvrv_z, comps, btis, runNo, artifactAtStart>>

\* json.dump(out, f, indent=2) and the close of the with block: the whole
\* record reaches the file, or a write raises OSError (disk full) with
\* part of the text written, or with none of it written (the text sits in
\* the file object's buffer until the write at close, which can fail with
\* 0 bytes out): the file stays the empty file open() left.
\* After the file is closed print("Wrote", OUTFILE) runs and can raise
\* OSError too (stdout on a full device): the run fails with its complete
\* record in the file.
DumpJson ==
    /\ pc = "dump"
    /\ \/ /\ artifact' = [state |-> "complete", generated_at |-> runNo]
          /\ pc' = "done"
          /\ UNCHANGED fault
       \/ /\ artifact' = [state |-> "partial", generated_at |-> 0]
          /\ Raise("oserror", "dump")
       \/ /\ artifact' = [state |-> "empty", generated_at |-> 0]
          /\ Raise("oserror", "dump")
       \/ /\ artifact' = [state |-> "complete", generated_at |-> runNo]
          /\ Raise("oserror", "print")
    /\ UNCHANGED <<callVars, prices, rsi_val, pct, feargreed, funding_pct_per_8h,
                   mvrv_z, comps, btis, runNo, artifactAtStart>>

\* The next run of the script: a new process, with new locals.
StartRun ==
    /\ pc \in {"done", "failed"}
    /\ runNo < MaxRuns
    /\ runNo' = runNo + 1
    /\ pc' = "fetch_prices"
    /\ prices' = <<>>
    /\ rsi_val' = None
    /\ pct' = None
    /\ feargreed' = None
    /\ funding_pct_per_8h' = None
    /\ mvrv_z' = None
    /\ comps' = <<>>
    /\ btis' = None
    /\ fault' = NoFault
    /\ artifactAtStart' = artifact
    /\ UNCHANGED <<callVars, artifact>>

Next ==
    \/ FetchPrices
    \/ Engine
    \/ FetchFearGreed
    \/ FetchFunding
    \/ FetchMvrv
    \/ BuildComponents
    \/ ComputeIndex
    \/ OpenOutfile
    \/ DumpJson
    \/ StartRun

Spec == Init /\ [][Next]_vars

----------------------------------------------------------------------------
(* Properties of weighted_mean and compute_btis.                           *)

\* The pairs that count: a present value and a weight > 0.
Counts(p) == p[1] # None /\ p[2][1] > 0

RECURSIVE SumOver(_, _, _)
SumOver(pairs, i, withValue) ==
    IF i = 0 THEN FromInt(0)
    ELSE LET rest == SumOver(pairs, i - 1, withValue)
         IN  IF Counts(pairs[i])
             THEN RAdd(rest, IF withValue THEN RMul(pairs[i][1], pairs[i][2])
                                          ELSE pairs[i][2])
             ELSE rest

RemoveAt(s, i) == SubSeq(s, 1, i - 1) \o SubSeq(s, i + 1, Len(s))

InsertAt(s, i, e) == SubSeq(s, 1, i - 1) \o <<e>> \o SubSeq(s, i, Len(s))

\* C1: when at least one pair has a present value and a weight > 0,
\* weighted_mean returns sum(value*weight)/sum(weight) over exactly those
\* pairs, and removing or adding a pair with an absent value or a weight
\* <= 0 leaves the result as it is.
C1_WeightedMeanOverSurvivors ==
    (phase = "returned" /\ \E i \in 1..Len(input) : Counts(input[i])) =>
        /\ output # None
        /\ RMul(output, SumOver(input, Len(input), FALSE))
             = SumOver(input, Len(input), TRUE)
        /\ \A i \in 1..Len(input) :
              ~Counts(input[i]) => WeightedMean(RemoveAt(input, i)) = output
        /\ \A q \in PairChoices : \A i \in 1..(Len(input) + 1) :
              ~Counts(q) => WeightedMean(InsertAt(input, i, q)) = output

C1_Witness ==
    /\ phase = "returned"
    /\ input = <<<<FromInt(80), Rat(20, 100)>>, <<None, Rat(25, 100)>>,
                 <<FromInt(60), Rat(20, 100)>>, <<FromInt(40), Rat(15, 100)>>>>
    /\ output = Rat(3400, 55)

\* C2: compute_btis returns null exactly when every component's normalized
\* is null, and otherwise a number within [0,100].
C2_BtisNullIffAllNull ==
    phase = "returned" =>
        /\ (output = None) <=> (\A i \in 1..Len(input) : input[i].normalized = None)
        /\ output # None => InRange0to100(output)

C2_Witness ==
    /\ phase = "returned"
    /\ \A i \in 1..Len(input) : input[i].normalized = None
    /\ Len(input) = Len(ComponentNames)
    /\ output = None

----------------------------------------------------------------------------
(* Properties of normalize.                                                *)

\* C3: with clip=true normalize is absent for an absent value, exactly 0
\* when hi == lo, otherwise 100*(value-lo)/(hi-lo) clamped into [0,100];
\* so the result is absent or within [0,100], and absent only for an
\* absent value.
C3_NormalizeReference ==
    (phase = "returned" /\ input.clip) =>
        /\ (output = None) <=> (input.value = None)
        /\ output # None => InRange0to100(output)
        /\ (input.value # None /\ input.hi = input.lo) => output = FromInt(0)
        /\ (input.value # None /\ input.hi # input.lo) =>
              LET num == RMul(FromInt(100), RSub(input.value, input.lo))
                  den == RSub(input.hi, input.lo)
                  x == RDiv(num, den)
              IN  /\ RLt(x, FromInt(0)) => output = FromInt(0)
                  /\ RLt(FromInt(100), x) => output = FromInt(100)
                  /\ InRange0to100(x) => RMul(output, den) = num

C3_Witness ==
    /\ phase = "returned"
    /\ input = [value |-> FromInt(150), lo |-> FromInt(0), hi |-> FromInt(100),
                clip |-> TRUE]
    /\ output = FromInt(100)

----------------------------------------------------------------------------
(* Properties of rsi.                                                      *)

NoNegativeChange(values) ==
    \A i \in 1..(Len(values) - 1) : values[i + 1] >= values[i]

StrictlyIncreasing(values) ==
    \A i \in 1..(Len(values) - 1) : values[i + 1] > values[i]

\* The averages rsi went through on its input: the seed and every step.
AvgsOfCall ==
    AvgTrace(Gains(input.values), Losses(input.values), input.period,
             Len(input.values) - 1 - input.period)

\* C4: rsi returns absent exactly when the series has fewer than period+1
\* prices.
C4_AbsentIffTooShort ==
    phase = "returned" =>
        ((output = None) <=> (Len(input.values) < input.period + 1))

\* C4, the part the code keeps: fewer than period+1 prices yield absent.
C4_TooShortIsAbsent ==
    (phase = "returned" /\ Len(input.values) < input.period + 1) => output = None

\* C5: on a series with no negative change for which rsi returns a value,
\* the value is exactly 100 and the smoothed average loss is 0 at every step.
C5_NoLossIsHundred ==
    (phase = "returned" /\ NoNegativeChange(input.values) /\ output # None) =>
        /\ output = FromInt(100)
        /\ \A k \in 1..Len(AvgsOfCall) : AvgsOfCall[k].loss = FromInt(0)

C5_Witness ==
    /\ phase = "returned"
    /\ StrictlyIncreasing(input.values)
    /\ Len(input.values) >= input.period + 2
    /\ input.period > 1
    /\ output = FromInt(100)

\* C6: every value rsi returns lies within [0,100], and the smoothed
\* average gain and loss are non-negative after the seed and every step.
C6_RsiWithinBounds ==
    (phase = "returned" /\ output # None) =>
        /\ \A k \in 1..Len(AvgsOfCall) :
              /\ RLe(FromInt(0), AvgsOfCall[k].gain)
              /\ RLe(FromInt(0), AvgsOfCall[k].loss)
        /\ InRange0to100(output)

C6_Witness ==
    /\ phase = "returned"
    /\ output # None
    /\ RLt(FromInt(0), output)
    /\ RLt(output, FromInt(100))
    /\ \E i \in 1..(Len(input.values) - 1) : input.values[i + 1] < input.values[i]
    /\ \E i \in 1..(Len(input.values) - 1) : input.values[i + 1] > input.values[i]

----------------------------------------------------------------------------
(* Properties of a run of main().                                          *)

NormalizedOk(c) == c.normalized = None \/ InRange0to100(c.normalized)

\* C7 as stated: once compute_components has returned, whatever numbers
\* the feeds returned, every component's normalized is null or within
\* [0,100].
C7_EveryComponentInRange ==
    comps # <<>> => \A i \in 1..Len(comps) : NormalizedOk(comps[i])

\* C7 as amended: the same, for the runs in which the sentiment feed's
\* reading is itself within [0,100]; the sentiment component is that
\* reading, unchanged.
C7_InRangeGivenSentimentInRange ==
    comps # <<>> =>
        /\ comps[3].normalized = feargreed
        /\ InRange0to100(feargreed) =>
              \A i \in 1..Len(comps) : NormalizedOk(comps[i])

C7_Witness ==
    /\ pc = "done"
    /\ Len(comps) = 5
    /\ feargreed = FromInt(75)
    /\ \A i \in 1..Len(comps) : comps[i].normalized # None
    /\ rsi_val # None
    /\ funding_pct_per_8h = Rat(20, 100)
    /\ comps[5].normalized = FromInt(100)

\* C8: the output file is touched only after the index is computed; a run
\* that fails at any step leaves the file as it found it, never empty or
\* partial; a run that succeeds leaves one complete record of its own.
C8_FailedRunLeavesArtifact ==
    /\ artifact # artifactAtStart =>
          (pc \in {"dump", "done", "failed"} /\ comps # <<>>)
    /\ pc = "failed" => artifact = artifactAtStart
    /\ pc = "done" => artifact = [state |-> "complete", generated_at |-> runNo]
    /\ pc \in {"done", "failed", "fetch_prices"} =>
          artifact.state \in {"absent", "complete"}

\* C9: a feed that stalls past its timeout is treated as absent: the run
\* goes on (it does not end on the timeout).
C9_TimeoutIsAbsence ==
    ~(pc = "failed" /\ fault.kind = "timeout")

\* C10: an indicator whose source value is unavailable (a history too
\* short, a feed that returned an empty result, a metric not configured)
\* never aborts the run.
C10_SoftAbsenceNeverAborts ==
    ~(pc = "failed" /\ fault.kind = "empty")

====
